---------------------------- MODULE Spec2Model ----------------------------
(***************************************************************************)
(* Model of extensions/sessions.ts of pi-amplike: the /sessions command.   *)
(*                                                                         *)
(* Strings are sequences of one-character strings, so that toLowerCase,    *)
(* trim, join and includes are computed and not assumed.  An optional      *)
(* value (parentSession?: string) is a sequence of length 0 (undefined) or *)
(* 1 (the string).                                                         *)
(***************************************************************************)
EXTENDS Integers, Sequences, FiniteSets, TLC

(***************************************************************************)
(* Bounds of the model.                                                    *)
(***************************************************************************)
\* sessions in an input of buildSessionTree under TreeSpec
MaxTreeSessions == 3
\* sessions in an input of buildSessionTree under ForestSpec
MaxForestSessions == 4
\* entries of the branch of the session under QuerySpec
MaxBranchEntries == 2
\* sessions the listing returns under Spec
MaxSessions == 6
\* characters of the search query under Spec
MaxQueryLen == 2

(***************************************************************************)
(* Optional values and strings.                                            *)
(***************************************************************************)
None == <<>>
Some(x) == <<x>>

\* JavaScript truthiness of an optional string: undefined and "" are falsy.
Truthy(opt) == opt # None /\ opt[1] # <<>>

Max(a, b) == IF a >= b THEN a ELSE b
Min(a, b) == IF a <= b THEN a ELSE b

\* the session paths of the model: "/a", "/b", ...
PathLetters == <<"a", "b", "c", "d", "e", "f", "g", "h">>
PathOf(i) == <<"/", PathLetters[i]>>
\* a path that no listed session has
DanglingPath == <<"/", "z">>

\* String.prototype.toLowerCase on the letters of the model
ToLowerChar(c) == IF c = "A" THEN "a" ELSE IF c = "B" THEN "b" ELSE c
ToLower(str) == [i \in 1..Len(str) |-> ToLowerChar(str[i])]

\* String.prototype.trim: white space is the blank of the model
RECURSIVE TrimStart(_)
TrimStart(str) ==
    IF str # <<>> /\ Head(str) = " " THEN TrimStart(Tail(str)) ELSE str

RECURSIVE TrimEnd(_)
TrimEnd(str) ==
    IF str # <<>> /\ str[Len(str)] = " "
    THEN TrimEnd(SubSeq(str, 1, Len(str) - 1)) ELSE str

Trim(str) == TrimEnd(TrimStart(str))

\* String.prototype.includes
Includes(text, q) ==
    \E i \in 0..(Len(text) - Len(q)) : SubSeq(text, i + 1, i + Len(q)) = q

\* Array.prototype.join(" ")
RECURSIVE JoinSpace(_)
JoinSpace(parts) ==
    IF parts = <<>> THEN <<>>
    ELSE IF Len(parts) = 1 THEN parts[1]
    ELSE parts[1] \o <<" ">> \o JoinSpace(Tail(parts))

(***************************************************************************)
(* buildSessionTree (lines 98-138).                                        *)
(***************************************************************************)
\* byPath.has(p), lines 100-103
ByPathHas(sessions, p) == \E i \in 1..Len(sessions) : sessions[i].path = p

\* line 110 without the byPath lookup
HasListedParent_NoLookup(sessions, s) == Truthy(s.parentSession)

\* the condition of line 110
HasListedParent(sessions, s) ==
    Truthy(s.parentSession) /\ ByPathHas(sessions, s.parentSession[1])

\* the childrenOf map after the loop of lines 109-119: its keys are the
\* parent paths that got at least one child, each bucket in input order
IndexChildren(sessions) ==
    LET keys == {sessions[i].parentSession[1] :
                    i \in {j \in 1..Len(sessions) : HasListedParent(sessions, sessions[j])}}
    IN  [p \in keys |->
            SelectSeq(sessions, LAMBDA s : HasListedParent(sessions, s)
                                           /\ s.parentSession[1] = p)]

\* lines 109-119 with every session pushed to roots, parent or not
IndexRoots_All(sessions) == sessions

\* the roots array after the loop of lines 109-119, in input order
IndexRoots(sessions) ==
    SelectSeq(sessions, LAMBDA s : ~HasListedParent(sessions, s))

\* Array.prototype.sort with comparator b.modified - a.modified (line 122);
\* the sort is stable, so x goes after every element that does not compare
\* greater than it
RECURSIVE InsertByModifiedDesc(_, _)
InsertByModifiedDesc(sorted, x) ==
    IF sorted = <<>> THEN <<x>>
    ELSE IF x.modified - Head(sorted).modified > 0
         THEN <<x>> \o sorted
         ELSE <<Head(sorted)>> \o InsertByModifiedDesc(Tail(sorted), x)

RECURSIVE SortByModifiedDesc(_)
SortByModifiedDesc(seq) ==
    IF seq = <<>> THEN <<>>
    ELSE InsertByModifiedDesc(SortByModifiedDesc(SubSeq(seq, 1, Len(seq) - 1)),
                              seq[Len(seq)])

\* sort with comparator a.created - b.created (line 128), stable
RECURSIVE InsertByCreatedAsc(_, _)
InsertByCreatedAsc(sorted, x) ==
    IF sorted = <<>> THEN <<x>>
    ELSE IF Head(sorted).created - x.created > 0
         THEN <<x>> \o sorted
         ELSE <<Head(sorted)>> \o InsertByCreatedAsc(Tail(sorted), x)

\* line 128 without the sort: the bucket in input order
SortByCreatedAsc_Unsorted(seq) == seq

RECURSIVE SortByCreatedAsc(_)
SortByCreatedAsc(seq) ==
    IF seq = <<>> THEN <<>>
    ELSE InsertByCreatedAsc(SortByCreatedAsc(SubSeq(seq, 1, Len(seq) - 1)),
                            seq[Len(seq)])

\* childrenOf.get(path) || []  (line 126)
BucketOf(childrenOf, path) ==
    IF path \in DOMAIN childrenOf THEN childrenOf[path] ELSE <<>>

\* buildNode (lines 125-135)
RECURSIVE buildNode(_, _, _)
buildNode(childrenOf, session, depth) ==
    LET children == SortByCreatedAsc(BucketOf(childrenOf, session.path))
    IN  [session  |-> session,
         children |-> [i \in 1..Len(children) |->
                          buildNode(childrenOf, children[i], depth + 1)],
         depth    |-> depth]

\* line 137 with the depth of the roots started at 1
Materialize_FromOne(childrenOf, roots) ==
    LET sorted == SortByModifiedDesc(roots)
    IN  [i \in 1..Len(sorted) |-> buildNode(childrenOf, sorted[i], 1)]

\* lines 121-137: sort the roots, materialize each
Materialize(childrenOf, roots) ==
    LET sorted == SortByModifiedDesc(roots)
    IN  [i \in 1..Len(sorted) |-> buildNode(childrenOf, sorted[i], 0)]

buildSessionTree(sessions) ==
    Materialize(IndexChildren(sessions), IndexRoots(sessions))

(***************************************************************************)
(* flattenTree (lines 151-197).  The connector glyphs are written in ASCII:*)
(* "|  " for the vertical bar fragment, "   " for the blank fragment,      *)
(* "L- " for the last-child connector and "T- " for the branch connector.  *)
(***************************************************************************)
BarFragment == <<"|", " ", " ">>
BlankFragment == <<" ", " ", " ">>
LastConnector == <<"L", "-", " ">>
BranchConnector == <<"T", "-", " ">>

\* the concatenation of the strings of a list (the loop of lines 164-166)
RECURSIVE Concat(_)
Concat(strs) == IF strs = <<>> THEN <<>> ELSE Head(strs) \o Concat(Tail(strs))

\* lines 161-169
PrefixOf(depth, parentPrefixes, isLast) ==
    IF depth > 0
    THEN Concat(parentPrefixes) \o (IF isLast THEN LastConnector ELSE BranchConnector)
    ELSE <<>>

\* lines 180-184 without the test of line 181: a root adds a fragment too
ChildPrefixes_FromRoot(depth, parentPrefixes, isLast) ==
    Append(parentPrefixes, IF isLast THEN BlankFragment ELSE BarFragment)

\* lines 180-184 with the two fragments exchanged
ChildPrefixes_Exchanged(depth, parentPrefixes, isLast) ==
    IF depth > 0
    THEN Append(parentPrefixes, IF isLast THEN BarFragment ELSE BlankFragment)
    ELSE parentPrefixes

\* lines 180-184
ChildPrefixes(depth, parentPrefixes, isLast) ==
    IF depth > 0
    THEN Append(parentPrefixes, IF isLast THEN BlankFragment ELSE BarFragment)
    ELSE parentPrefixes

\* flatten (lines 154-190): the entries it pushes, in order
RECURSIVE flatten(_, _, _, _)
RECURSIVE flattenEach(_, _, _, _)
flatten(node, depth, parentPrefixes, isLast) ==
    <<[session     |-> node.session,
       depth       |-> depth,
       prefix      |-> PrefixOf(depth, parentPrefixes, isLast),
       isLast      |-> isLast,
       hasChildren |-> Len(node.children) > 0]>>
    \o flattenEach(node.children, 1, depth + 1,
                   ChildPrefixes(depth, parentPrefixes, isLast))

\* the forEach of lines 186-189 from index i on (and of lines 192-194)
flattenEach(nodes, i, depth, prefixes) ==
    IF i > Len(nodes) THEN <<>>
    ELSE flatten(nodes[i], depth, prefixes, i = Len(nodes))
         \o flattenEach(nodes, i + 1, depth, prefixes)

flattenTree(roots) == flattenEach(roots, 1, 0, <<>>)

(***************************************************************************)
(* getSessionHeader (lines 40-70).  A file is [readable, lines]; a line is *)
(* [json, type, parentSession]: json says whether JSON.parse accepts it.   *)
(* The result is <<"resolved", header>> with header None for null, or      *)
(* <<"pending">> when none of the three handlers ever runs.                *)
(***************************************************************************)
\* the "line" handler without the test of header.type (line 52)
OnLine_AnyType(line) ==
    IF line.json
    THEN <<"resolved", Some([parentSession |-> line.parentSession])>>
    ELSE <<"resolved", None>>

\* the "line" handler, lines 47-60
OnLine(line) ==
    IF line.json
    THEN IF line.type = "session"
         THEN <<"resolved", Some([parentSession |-> line.parentSession])>>
         ELSE <<"resolved", None>>
    ELSE <<"resolved", None>>

getSessionHeader(file) ==
    IF ~file.readable THEN <<"resolved", None>>          \* lines 62-68
    ELSE IF file.lines = <<>> THEN <<"pending">>         \* no "line" event, no error
    ELSE OnLine(file.lines[1])

\* header?.parentSession (line 86)
ParentOfHeader(header) ==
    IF header = None THEN None ELSE header[1].parentSession

\* lines 84-87
WithParent(session, header) ==
    [path |-> session.path, name |-> session.name,
     firstMessage |-> session.firstMessage, cwd |-> session.cwd,
     created |-> session.created, modified |-> session.modified,
     parentSession |-> ParentOfHeader(header)]

(***************************************************************************)
(* SessionTreeSelector (lines 202-418).  Indices are 0-based as in the     *)
(* code: filteredNodes[i] of the code is filteredNodes[i + 1] here.        *)
(***************************************************************************)
\* ensureVisible that never moves the window
ensureVisible_Noop(s) == s

\* ensureVisible that puts the selection on the first line of the window
\* whenever it has left the window
ensureVisible_Jump(s) ==
    IF s.selectedIndex < s.scrollOffset
       \/ s.selectedIndex >= s.scrollOffset + s.maxVisibleLines
    THEN [s EXCEPT !.scrollOffset = s.selectedIndex]
    ELSE s

\* ensureVisible, lines 263-269
ensureVisible(s) ==
    IF s.selectedIndex < s.scrollOffset
    THEN [s EXCEPT !.scrollOffset = s.selectedIndex]
    ELSE IF s.selectedIndex >= s.scrollOffset + s.maxVisibleLines
         THEN [s EXCEPT !.scrollOffset = s.selectedIndex - s.maxVisibleLines + 1]
         ELSE s

\* lines 246-254 with session.path left out of the searchable fields
MatchText_NoPath(node) ==
    ToLower(JoinSpace(SelectSeq(<<node.session.firstMessage, node.session.name,
                                  node.session.cwd>>,
                                LAMBDA x : x # <<>>)))

\* the text a node is matched against, lines 246-254
MatchText(node) ==
    ToLower(JoinSpace(SelectSeq(<<node.session.firstMessage, node.session.name,
                                  node.session.cwd, node.session.path>>,
                                LAMBDA x : x # <<>>)))

\* lines 241-257 without the trim() of line 241
FilterNodes_NoTrim(flatNodes, value) ==
    LET query == ToLower(value)
    IN  IF query = <<>> THEN flatNodes
        ELSE SelectSeq(flatNodes, LAMBDA node : Includes(MatchText(node), query))

\* lines 241-257
FilterNodes(flatNodes, value) ==
    LET query == Trim(ToLower(value))
    IN  IF query = <<>> THEN flatNodes
        ELSE SelectSeq(flatNodes, LAMBDA node : Includes(MatchText(node), query))

\* line 258
ClampSelected(selectedIndex, length) == Min(selectedIndex, Max(0, length - 1))

\* applyFilter that narrows flatNodes itself to the matching nodes
applyFilter_InPlace(s) ==
    LET nodes == FilterNodes(s.flatNodes, s.query)
    IN  ensureVisible([s EXCEPT !.flatNodes = nodes,
                                !.filteredNodes = nodes,
                                !.selectedIndex = ClampSelected(s.selectedIndex, Len(nodes)),
                                !.scrollOffset = 0])

\* applyFilter, lines 240-261
applyFilter(s) ==
    LET nodes == FilterNodes(s.flatNodes, s.query)
    IN  ensureVisible([s EXCEPT !.filteredNodes = nodes,
                                !.selectedIndex = ClampSelected(s.selectedIndex, Len(nodes)),
                                !.scrollOffset = 0])

\* flatNodes.findIndex(n => n.session.path === path), line 232
RECURSIVE FindIndexFrom(_, _, _)
FindIndexFrom(flatNodes, path, i) ==
    IF i >= Len(flatNodes) THEN -1
    ELSE IF flatNodes[i + 1].session.path = path THEN i
    ELSE FindIndexFrom(flatNodes, path, i + 1)

\* the constructor without the ensureVisible() of line 235
NewSelector_NoEnsure(roots, maxVisibleLines, currentPath) ==
    LET flat == flattenTree(roots)
        s0 == [flatNodes |-> flat, filteredNodes |-> flat,
               selectedIndex |-> 0, scrollOffset |-> 0,
               maxVisibleLines |-> maxVisibleLines,
               searchMode |-> FALSE, query |-> <<>>,
               currentSessionPath |-> currentPath]
        idx == FindIndexFrom(flat, currentPath[1], 0)
    IN  IF Truthy(currentPath) /\ idx >= 0
        THEN [s0 EXCEPT !.selectedIndex = idx]
        ELSE s0

\* the constructor, lines 216-238
NewSelector(roots, maxVisibleLines, currentPath) ==
    LET flat == flattenTree(roots)
        s0 == [flatNodes |-> flat, filteredNodes |-> flat,
               selectedIndex |-> 0, scrollOffset |-> 0,
               maxVisibleLines |-> maxVisibleLines,
               searchMode |-> FALSE, query |-> <<>>,
               currentSessionPath |-> currentPath]
        idx == FindIndexFrom(flat, currentPath[1], 0)
    IN  IF Truthy(currentPath) /\ idx >= 0
        THEN ensureVisible([s0 EXCEPT !.selectedIndex = idx])
        ELSE s0

\* the keys of the model: named keys, and the printable characters
NamedKeys == {"up", "down", "pageUp", "pageDown", "home", "end",
              "enter", "escape", "backspace"}
Printable == {"/", "B", " "}
Keys == NamedKeys \cup Printable

\* Input.handleInput of pi-tui on the value of the search input (line 376):
\* a printable character is inserted, backspace deletes, any other key
\* leaves the value as it is.  The cursor stays at the end.
InputValue(value, key) ==
    IF key \in Printable THEN Append(value, key)
    ELSE IF key = "backspace" /\ value # <<>> THEN SubSeq(value, 1, Len(value) - 1)
    ELSE value

\* the search mode in which the commit key drops the filter like the cancel key
SearchKey_EnterClears(s, key) ==
    IF key \in {"escape", "enter"}
    THEN applyFilter([s EXCEPT !.searchMode = FALSE, !.query = <<>>])
    ELSE applyFilter([s EXCEPT !.query = InputValue(s.query, key)])

\* handleInput in search mode, lines 367-380
SearchKey(s, key) ==
    IF key = "escape"
    THEN applyFilter([s EXCEPT !.searchMode = FALSE, !.query = <<>>])
    ELSE IF key = "enter"
    THEN [s EXCEPT !.searchMode = FALSE]
    ELSE applyFilter([s EXCEPT !.query = InputValue(s.query, key)])

\* handleInput outside search mode, lines 382-416: the new state
BrowseKey(s, key) ==
    IF key \in {"up", "k"}
    THEN IF s.selectedIndex > 0
         THEN ensureVisible([s EXCEPT !.selectedIndex = s.selectedIndex - 1])
         ELSE s
    ELSE IF key \in {"down", "j"}
    THEN IF s.selectedIndex < Len(s.filteredNodes) - 1
         THEN ensureVisible([s EXCEPT !.selectedIndex = s.selectedIndex + 1])
         ELSE s
    ELSE IF key = "pageUp"
    THEN ensureVisible([s EXCEPT !.selectedIndex =
                                    Max(0, s.selectedIndex - s.maxVisibleLines)])
    ELSE IF key = "pageDown"
    THEN ensureVisible([s EXCEPT !.selectedIndex =
                                    Min(Len(s.filteredNodes) - 1,
                                        s.selectedIndex + s.maxVisibleLines)])
    ELSE IF key = "home"
    THEN ensureVisible([s EXCEPT !.selectedIndex = 0])
    ELSE IF key = "end"
    THEN ensureVisible([s EXCEPT !.selectedIndex = Len(s.filteredNodes) - 1])
    ELSE IF key = "/"
    THEN [s EXCEPT !.searchMode = TRUE]
    ELSE s

\* filteredNodes[selectedIndex] is defined (lines 408-409)
HasSelected(s) ==
    s.selectedIndex >= 0 /\ s.selectedIndex < Len(s.filteredNodes)

\* the commit key reading the unfiltered list
BrowseEmit_FromFlat(s, key) ==
    IF key = "enter"
    THEN IF s.selectedIndex >= 0 /\ s.selectedIndex < Len(s.flatNodes)
         THEN <<Some(s.flatNodes[s.selectedIndex + 1].session.path)>>
         ELSE <<>>
    ELSE IF key = "escape" THEN <<None>>
    ELSE <<>>

\* the calls of done that handleInput makes through onSelect and onCancel
\* (lines 407-413 with the wiring of lines 509-510): None is done(null)
BrowseEmit(s, key) ==
    IF key = "enter"
    THEN IF HasSelected(s)
         THEN <<Some(s.filteredNodes[s.selectedIndex + 1].session.path)>>
         ELSE <<>>
    ELSE IF key = "escape" THEN <<None>>
    ELSE <<>>

\* SessionTreeSelector.handleInput, lines 366-417
handleInput(s, key) == IF s.searchMode THEN SearchKey(s, key) ELSE BrowseKey(s, key)

\* handleInput without the return of line 379: a key handled in search mode
\* falls through to the browse branches
handleInputEmit_FallThrough(s, key) == BrowseEmit(s, key)

\* the calls of onSelect / onCancel handleInput makes, lines 367-380 and 406-413
handleInputEmit(s, key) == IF s.searchMode THEN <<>> ELSE BrowseEmit(s, key)

\* line 507
MaxLines(rows) == Max(5, (rows * 6) \div 10)

(***************************************************************************)
(* State.                                                                  *)
(***************************************************************************)
VARIABLES
    \* buildSessionTree and flattenTree run on their own (TreeSpec)
    tpc,          \* "input", "indexed", "built", "flat"; "off" under Spec
    tSessions,    \* the argument of buildSessionTree
    tChildrenOf,  \* the childrenOf map
    tRoots,       \* the roots array (SessionWithParent[])
    tTree,        \* the result of buildSessionTree
    tFlat,        \* the result of flattenTree
    \* the recursion of buildNode, one call per step (WalkSpec)
    wCalls,       \* the sessions buildNode is still to be called on, next first
    wVisited,     \* the sessions buildNode has been called on, in call order
    \* the /sessions command (Spec)
    pc,                  \* where loadSessions stands: "list", "header", "end"; "off" under TreeSpec
    currentSessionPath,  \* ctx.sessionManager.getSessionFile(), line 460
    sessions,            \* the result of SessionManager.list / listAll
    pending,             \* the file getSessionHeader is reading, None when none
    results,             \* results of loadSessionsWithParents
    loaded,              \* loaded of loadSessionsWithParents
    progress,            \* the calls onProgress(loaded, total) so far
    loadingComplete,     \* line 472
    view,                \* what the container holds
    selector,            \* line 471: None for null, else Some(the selector)
    outcomes,            \* the calls of done so far: None for done(null), Some(path)
    notifications,       \* the calls of ctx.ui.notify from loadSessions
    lastKey,             \* the data of the last input event delivered, "none" before the first
    \* the session_query tool (QuerySpec)
    qpc,            \* where execute stands; "off" under the other specifications
    sessionPath,    \* params.sessionPath
    qWorld,         \* what execute meets: the file system, SessionManager, ctx.model, complete
    qUpdates,       \* the calls of onUpdate so far
    qOpened,        \* SessionManager.open has been called
    qMessages,      \* messages, lines 90-92
    qCompleteCalls, \* the number of calls of complete
    qResult         \* None until execute returns, then Some(its result)

treeVars == <<tpc, tSessions, tChildrenOf, tRoots, tTree, tFlat, wCalls, wVisited>>
cmdVars == <<pc, currentSessionPath, sessions, pending, results, loaded, progress,
             loadingComplete, view, selector, outcomes, notifications, lastKey>>
queryVars == <<qpc, sessionPath, qWorld, qUpdates, qOpened, qMessages, qCompleteCalls, qResult>>
vars == <<treeVars, cmdVars, queryVars>>

TreeOff ==
    /\ tpc = "off"
    /\ tSessions = <<>>
    /\ tChildrenOf = <<>>
    /\ tRoots = <<>>
    /\ tTree = <<>>
    /\ tFlat = <<>>
    /\ wCalls = <<>>
    /\ wVisited = <<>>

QueryOff ==
    /\ qpc = "off"
    /\ sessionPath = <<>>
    /\ qWorld = <<>>
    /\ qUpdates = <<>>
    /\ qOpened = FALSE
    /\ qMessages = <<>>
    /\ qCompleteCalls = 0
    /\ qResult = None

CmdOff ==
    /\ pc = "off"
    /\ currentSessionPath = None
    /\ sessions = <<>>
    /\ pending = None
    /\ results = <<>>
    /\ loaded = 0
    /\ progress = <<>>
    /\ loadingComplete = FALSE
    /\ view = <<"loading">>
    /\ selector = None
    /\ outcomes = <<>>
    /\ notifications = <<>>
    /\ lastKey = "none"

(***************************************************************************)
(* The environment of the command under Spec: the sessions the listing     *)
(* returns are the first n of a pool, and the file of a session holds a    *)
(* session header, a record of another type, a line that is no JSON, or no *)
(* line at all, or it cannot be read.                                      *)
(***************************************************************************)
PoolModified == <<17, 19, 18, 16, 15, 14, 13, 12>>

PoolName(i) == IF i = 3 THEN <<"A", "b">> ELSE <<>>
PoolFirstMessage(i) == IF i = 5 THEN <<"B">> ELSE <<>>

PoolSession(i) ==
    [path |-> PathOf(i), name |-> PoolName(i), firstMessage |-> PoolFirstMessage(i),
     cwd |-> <<"w">>, created |-> i, modified |-> PoolModified[i]]

\* the parentSession a well-formed header of session i carries
PoolParent(i) ==
    IF i = 2 THEN Some(PathOf(1))
    ELSE IF i = 4 THEN Some(PathOf(2))
    ELSE None

SessionFile(i) ==
    [readable |-> TRUE,
     lines |-> <<[json |-> TRUE, type |-> "session", parentSession |-> PoolParent(i)]>>]
ForeignFile ==
    [readable |-> TRUE,
     lines |-> <<[json |-> TRUE, type |-> "message", parentSession |-> Some(DanglingPath)]>>]
MalformedFile ==
    [readable |-> TRUE,
     lines |-> <<[json |-> FALSE, type |-> "", parentSession |-> None]>>]
EmptyFile == [readable |-> TRUE, lines |-> <<>>]
UnreadableFile == [readable |-> FALSE, lines |-> <<>>]

Files(i) == {SessionFile(i), ForeignFile, MalformedFile, EmptyFile, UnreadableFile}

CurrentPaths == {None, Some(PathOf(MaxSessions))}

\* tui.terminal.rows
Rows == {4, 8}

Init ==
    /\ TreeOff
    /\ QueryOff
    /\ pc = "list"
    /\ currentSessionPath \in CurrentPaths
    /\ sessions = <<>>
    /\ pending = None
    /\ results = <<>>
    /\ loaded = 0
    /\ progress = <<>>
    /\ loadingComplete = FALSE
    /\ view = <<"loading">>
    /\ selector = None
    /\ outcomes = <<>>
    /\ notifications = <<>>
    /\ lastKey = "none"

\* the body of the onProgress callback, lines 489-499
OnProgress(complete, oldView, n, total) ==
    IF ~complete THEN <<"progress", n, total>> ELSE oldView

\* The listing promise resolves (lines 478-486); with sessions, loadSessions
\* goes on into loadSessionsWithParents up to its first await (line 83).
ListResolves ==
    /\ pc = "list"
    /\ \E n \in 0..MaxSessions :
          /\ sessions' = [i \in 1..n |-> PoolSession(i)]
          /\ IF n = 0
             THEN /\ pc' = "end"
                  /\ pending' = None
                  /\ outcomes' = Append(outcomes, None)
                  /\ notifications' = Append(notifications, "No sessions found")
             ELSE /\ pc' = "header"
                  /\ \E f \in Files(1) : pending' = Some(f)
                  /\ UNCHANGED <<outcomes, notifications>>
    /\ UNCHANGED <<currentSessionPath, results, loaded, progress, loadingComplete,
                   view, selector, lastKey>>
    /\ UNCHANGED treeVars
    /\ UNCHANGED queryVars

\* The catch of lines 519-522 without done(null): the error is reported and
\* the component stays open.
ListRejects_NoDone ==
    /\ pc = "list"
    /\ pc' = "end"
    /\ notifications' = Append(notifications, "Error loading sessions")
    /\ UNCHANGED <<currentSessionPath, sessions, pending, results, loaded, progress,
                   loadingComplete, view, selector, outcomes, lastKey>>
    /\ UNCHANGED treeVars
    /\ UNCHANGED queryVars

\* The listing promise rejects: the catch of lines 519-522.
ListRejects ==
    /\ pc = "list"
    /\ pc' = "end"
    /\ outcomes' = Append(outcomes, None)
    /\ notifications' = Append(notifications, "Error loading sessions")
    /\ UNCHANGED <<currentSessionPath, sessions, pending, results, loaded, progress,
                   loadingComplete, view, selector, lastKey>>
    /\ UNCHANGED treeVars
    /\ UNCHANGED queryVars

\* The promise of getSessionHeader resolves: lines 84-89, then either the
\* next getSessionHeader (line 83) or the return of line 92 and the rest of
\* loadSessions (lines 501-518), which runs before any further input event.
HeaderSettles ==
    /\ pc = "header"
    /\ getSessionHeader(pending[1])[1] = "resolved"
    /\ LET header == getSessionHeader(pending[1])[2]
           n == loaded + 1
           total == Len(sessions)
           pushed == Append(results, WithParent(sessions[n], header))
       IN  /\ results' = pushed
           /\ loaded' = n
           /\ progress' = Append(progress, <<n, total>>)
           /\ IF n < total
              THEN /\ pc' = "header"
                   /\ \E f \in Files(n + 1) : pending' = Some(f)
                   /\ view' = OnProgress(loadingComplete, view, n, total)
                   /\ UNCHANGED <<loadingComplete, selector>>
              ELSE /\ pc' = "end"
                   /\ pending' = None
                   /\ loadingComplete' = TRUE
                   /\ \E rows \in Rows :
                         selector' = Some(NewSelector(buildSessionTree(pushed),
                                                      MaxLines(rows), currentSessionPath))
                   /\ view' = <<"selector">>
    /\ UNCHANGED <<currentSessionPath, sessions, outcomes, notifications, lastKey>>
    /\ UNCHANGED treeVars
    /\ UNCHANGED queryVars

\* the search input takes no character beyond MaxQueryLen
WithinQueryBound(key) ==
    (selector # None /\ selector[1].searchMode /\ key \in Printable)
        => Len(selector[1].query) < MaxQueryLen

\* the handleInput of the component, lines 530-537
ComponentInput(key) ==
    IF selector # None
    THEN /\ selector' = Some(handleInput(selector[1], key))
         /\ outcomes' = outcomes \o handleInputEmit(selector[1], key)
    ELSE /\ outcomes' = (IF key = "escape" THEN Append(outcomes, None) ELSE outcomes)
         /\ UNCHANGED selector

\* A key reaches the component: the host delivers input to it until done is
\* called, which closes the component.
KeyEvent ==
    /\ pc # "off"
    /\ outcomes = <<>>
    /\ \E key \in Keys :
          /\ WithinQueryBound(key)
          /\ ComponentInput(key)
          /\ lastKey' = key
    /\ UNCHANGED <<pc, currentSessionPath, sessions, pending, results, loaded,
                   progress, loadingComplete, view, notifications>>
    /\ UNCHANGED treeVars
    /\ UNCHANGED queryVars

Next == ListResolves \/ ListRejects \/ HeaderSettles \/ KeyEvent

Spec == Init /\ [][Next]_vars

\* The event loop runs the continuation of every promise that settles.
FairSpec ==
    Spec /\ WF_vars(ListResolves \/ ListRejects) /\ WF_vars(HeaderSettles)

(***************************************************************************)
(* TreeSpec: buildSessionTree and flattenTree on every input of up to      *)
(* MaxTreeSessions sessions with distinct paths, any parent reference      *)
(* (absent, empty, dangling, own path, any listed path) and any order of   *)
(* the time stamps.                                                        *)
(***************************************************************************)
TreeTimes == {<<1, 1>>, <<1, 2>>, <<2, 1>>}

TreeParents(n) == {None, Some(<<>>), Some(DanglingPath)} \cup {Some(PathOf(i)) : i \in 1..n}

TreeSession(i, parent, times) ==
    [path |-> PathOf(i), name |-> <<>>, firstMessage |-> <<>>, cwd |-> <<"w">>,
     created |-> times[1], modified |-> times[2], parentSession |-> parent]

TreeInit ==
    /\ CmdOff
    /\ QueryOff
    /\ tpc = "input"
    /\ \E n \in 0..MaxTreeSessions :
         \E ps \in [1..n -> TreeParents(n)], ts \in [1..n -> TreeTimes] :
            tSessions = [i \in 1..n |-> TreeSession(i, ps[i], ts[i])]
    /\ tChildrenOf = <<>>
    /\ tRoots = <<>>
    /\ tTree = <<>>
    /\ tFlat = <<>>
    /\ wCalls = <<>>
    /\ wVisited = <<>>

\* lines 100-119
TreeIndex ==
    /\ tpc = "input"
    /\ tpc' = "indexed"
    /\ tChildrenOf' = IndexChildren(tSessions)
    /\ tRoots' = IndexRoots(tSessions)
    /\ UNCHANGED <<tSessions, tTree, tFlat, wCalls, wVisited>>
    /\ UNCHANGED cmdVars
    /\ UNCHANGED queryVars

\* lines 121-137
TreeMaterialize ==
    /\ tpc = "indexed"
    /\ tpc' = "built"
    /\ tTree' = Materialize(tChildrenOf, tRoots)
    /\ UNCHANGED <<tSessions, tChildrenOf, tRoots, tFlat, wCalls, wVisited>>
    /\ UNCHANGED cmdVars
    /\ UNCHANGED queryVars

\* lines 151-197
TreeFlatten ==
    /\ tpc = "built"
    /\ tpc' = "flat"
    /\ tFlat' = flattenTree(tTree)
    /\ UNCHANGED <<tSessions, tChildrenOf, tRoots, tTree, wCalls, wVisited>>
    /\ UNCHANGED cmdVars
    /\ UNCHANGED queryVars

TreeNext == TreeIndex \/ TreeMaterialize \/ TreeFlatten

TreeSpec == TreeInit /\ [][TreeNext]_vars

(***************************************************************************)
(* ForestSpec: buildSessionTree and flattenTree on every input of up to    *)
(* MaxForestSessions sessions in which a session was handed off from none  *)
(* or from one listed before it, with any order of the time stamps: the    *)
(* inputs that give deep trees with several children per node.             *)
(***************************************************************************)
ForestParents(i) == {None} \cup {Some(PathOf(j)) : j \in 1..(i - 1)}

ForestInit ==
    /\ CmdOff
    /\ QueryOff
    /\ tpc = "input"
    /\ \E n \in 0..MaxForestSessions :
         \E ps \in [1..n -> {None} \cup {Some(PathOf(j)) : j \in 1..n}],
            ts \in [1..n -> TreeTimes] :
            /\ \A i \in 1..n : ps[i] \in ForestParents(i)
            /\ tSessions = [i \in 1..n |-> TreeSession(i, ps[i], ts[i])]
    /\ tChildrenOf = <<>>
    /\ tRoots = <<>>
    /\ tTree = <<>>
    /\ tFlat = <<>>
    /\ wCalls = <<>>
    /\ wVisited = <<>>

ForestSpec == ForestInit /\ [][TreeNext]_vars

(***************************************************************************)
(* WalkSpec: the recursion of buildNode (lines 125-137) unrolled, one call *)
(* per step, on the inputs of TreeSpec.  wCalls is the call stack read     *)
(* depth first: a call visits its session and puts the session's sorted    *)
(* children in front of the calls still to be made.  A walk is cut off     *)
(* once it has made more calls than there are sessions.                    *)
(***************************************************************************)
\* lines 122 and 137: roots.sort(...), roots.map(r => buildNode(r))
WalkEnter ==
    /\ tpc = "indexed"
    /\ tpc' = "walk"
    /\ wCalls' = SortByModifiedDesc(tRoots)
    /\ UNCHANGED <<tSessions, tChildrenOf, tRoots, tTree, tFlat, wVisited>>
    /\ UNCHANGED cmdVars
    /\ UNCHANGED queryVars

\* lines 125-135: one call of buildNode
WalkCall ==
    /\ tpc = "walk"
    /\ wCalls # <<>>
    /\ Len(wVisited) <= Len(tSessions)
    /\ wVisited' = Append(wVisited, Head(wCalls))
    /\ wCalls' = SortByCreatedAsc(BucketOf(tChildrenOf, Head(wCalls).path)) \o Tail(wCalls)
    /\ UNCHANGED <<tpc, tSessions, tChildrenOf, tRoots, tTree, tFlat>>
    /\ UNCHANGED cmdVars
    /\ UNCHANGED queryVars

\* line 137: the map over the roots returns
WalkReturn ==
    /\ tpc = "walk"
    /\ wCalls = <<>>
    /\ tpc' = "walked"
    /\ UNCHANGED <<tSessions, tChildrenOf, tRoots, tTree, tFlat, wCalls, wVisited>>
    /\ UNCHANGED cmdVars
    /\ UNCHANGED queryVars

WalkNext == TreeIndex \/ WalkEnter \/ WalkCall \/ WalkReturn

WalkSpec == TreeInit /\ [][WalkNext]_vars

(***************************************************************************)
(* QuerySpec: execute of the session_query tool (session-query extension,  *)
(* lines 45-159), one step per block of the function.  A result is         *)
(* [text, isError]: text names the message of the result, isError is FALSE *)
(* where the result has no isError property.                               *)
(***************************************************************************)
\* String.prototype.endsWith
EndsWith(str, suffix) ==
    /\ Len(str) >= Len(suffix)
    /\ SubSeq(str, Len(str) - Len(suffix) + 1, Len(str)) = suffix

JsonlSuffix == <<".", "j", "s", "o", "n", "l">>

\* params.sessionPath: paths with and without the suffix
QueryPaths ==
    {<<"s">> \o JsonlSuffix,
     JsonlSuffix,
     <<"s", ".", "j", "s", "o", "n">>,
     <<"s">> \o JsonlSuffix \o <<".", "b">>,
     <<>>}

\* sessionManager.getBranch(): entries of type "message" and of other types
BranchEntries == {"message", "compaction"}
Branches == UNION {[1..n -> BranchEntries] : n \in 0..MaxBranchEntries}

\* what execute meets
QueryWorlds ==
    [fs       : {"exists", "missing", "throws"},       \* lines 57-71
     open     : {"opens", "throws"},                   \* lines 79-86
     branch   : Branches,                              \* line 89
     model    : BOOLEAN,                               \* ctx.model, line 107
     complete : {"keyThrows", "throws", "aborted", "answer"}]  \* lines 115-159

QueryInit ==
    /\ TreeOff
    /\ CmdOff
    /\ qpc = "path"
    /\ sessionPath \in QueryPaths
    /\ qWorld \in QueryWorlds
    /\ qUpdates = <<>>
    /\ qOpened = FALSE
    /\ qMessages = <<>>
    /\ qCompleteCalls = 0
    /\ qResult = None

\* return { content: [{ type: "text", text }], isError }
Return(text, isError) ==
    /\ qpc' = "returned"
    /\ qResult' = Some([text |-> text, isError |-> isError])

\* lines 48-54
QValidatePath ==
    /\ qpc = "path"
    /\ IF ~EndsWith(sessionPath, JsonlSuffix)
       THEN Return("Error: Invalid session path", TRUE)
       ELSE qpc' = "exists" /\ UNCHANGED qResult
    /\ UNCHANGED <<sessionPath, qWorld, qUpdates, qOpened, qMessages, qCompleteCalls>>
    /\ UNCHANGED <<treeVars, cmdVars>>

\* lines 56-71 with the onUpdate of line 73 in front of the check
QCheckExists_UpdateFirst ==
    /\ qpc = "exists"
    /\ qUpdates' = Append(qUpdates, "Loading session...")
    /\ IF qWorld.fs = "throws" THEN Return("Error checking session file", TRUE)
       ELSE IF qWorld.fs = "missing" THEN Return("Error: Session file not found", TRUE)
       ELSE qpc' = "load" /\ UNCHANGED qResult
    /\ UNCHANGED <<sessionPath, qWorld, qOpened, qMessages, qCompleteCalls>>
    /\ UNCHANGED <<treeVars, cmdVars>>

\* lines 56-71
QCheckExists ==
    /\ qpc = "exists"
    /\ IF qWorld.fs = "throws" THEN Return("Error checking session file", TRUE)
       ELSE IF qWorld.fs = "missing" THEN Return("Error: Session file not found", TRUE)
       ELSE qpc' = "load" /\ UNCHANGED qResult
    /\ UNCHANGED <<sessionPath, qWorld, qUpdates, qOpened, qMessages, qCompleteCalls>>
    /\ UNCHANGED <<treeVars, cmdVars>>

\* lines 73-86
QLoad ==
    /\ qpc = "load"
    /\ qUpdates' = Append(qUpdates, "Loading session...")
    /\ qOpened' = TRUE
    /\ IF qWorld.open = "throws" THEN Return("Error loading session", TRUE)
       ELSE qpc' = "branch" /\ UNCHANGED qResult
    /\ UNCHANGED <<sessionPath, qWorld, qMessages, qCompleteCalls>>
    /\ UNCHANGED <<treeVars, cmdVars>>

\* lines 88-98
QGetBranch ==
    /\ qpc = "branch"
    /\ LET messages == SelectSeq(qWorld.branch, LAMBDA entry : entry = "message")
       IN  /\ qMessages' = messages
           /\ IF Len(messages) = 0
              THEN Return("Session is empty - no messages found.", FALSE)
              ELSE qpc' = "analyze" /\ UNCHANGED qResult
    /\ UNCHANGED <<sessionPath, qWorld, qUpdates, qOpened, qCompleteCalls>>
    /\ UNCHANGED <<treeVars, cmdVars>>

\* lines 100-113
QAnalyze ==
    /\ qpc = "analyze"
    /\ qUpdates' = Append(qUpdates, "Analyzing session...")
    /\ IF ~qWorld.model
       THEN Return("Error: No model available to analyze the session.", TRUE)
       ELSE qpc' = "complete" /\ UNCHANGED qResult
    /\ UNCHANGED <<sessionPath, qWorld, qOpened, qMessages, qCompleteCalls>>
    /\ UNCHANGED <<treeVars, cmdVars>>

\* lines 115-159
QComplete ==
    /\ qpc = "complete"
    /\ IF qWorld.complete = "keyThrows"
       THEN /\ Return("Error querying session", TRUE)
            /\ UNCHANGED qCompleteCalls
       ELSE /\ qCompleteCalls' = qCompleteCalls + 1
            /\ IF qWorld.complete = "throws" THEN Return("Error querying session", TRUE)
               ELSE IF qWorld.complete = "aborted" THEN Return("Query was cancelled.", FALSE)
               ELSE Return("answer", FALSE)
    /\ UNCHANGED <<sessionPath, qWorld, qUpdates, qOpened, qMessages>>
    /\ UNCHANGED <<treeVars, cmdVars>>

QueryNext ==
    QValidatePath \/ QCheckExists \/ QLoad \/ QGetBranch \/ QAnalyze \/ QComplete

QuerySpec == QueryInit /\ [][QueryNext]_vars

(***************************************************************************)
(* Claims about buildSessionTree and flattenTree, checked under TreeSpec.  *)
(***************************************************************************)
\* how many entries of a flattened list carry session s
CountIn(flat, s) == Cardinality({k \in 1..Len(flat) : flat[k].session = s})

\* the index of the input session the parent reference of session i names,
\* 0 when it is absent or names no input session
ParentIdx(i) ==
    LET ref == tSessions[i].parentSession
    IN  IF ref = None THEN 0
        ELSE IF \E j \in 1..Len(tSessions) : tSessions[j].path = ref[1]
             THEN CHOOSE j \in 1..Len(tSessions) : tSessions[j].path = ref[1]
             ELSE 0

\* the session reached from i by following m parent references, 0 when the
\* chain ends before
RECURSIVE AncestorAt(_, _)
AncestorAt(i, m) ==
    IF m = 0 \/ i = 0 THEN i ELSE AncestorAt(ParentIdx(i), m - 1)

\* session i refers to itself or lies on a reference cycle
OnCycle(i) == \E m \in 1..Len(tSessions) : AncestorAt(i, m) = i

\* C1: flattenTree(buildSessionTree(sessions)) holds exactly one entry per
\* input session, whatever the parent references are.
C1_OneEntryPerSession ==
    tpc = "flat" =>
        /\ Len(tFlat) = Len(tSessions)
        /\ \A i \in 1..Len(tSessions) : CountIn(tFlat, tSessions[i]) = 1

\* C2: a session that refers to itself or lies on a reference cycle is in the
\* flattened list exactly once, at depth 0.
C2_CycleMembersAreRoots ==
    tpc = "flat" =>
        \A i \in 1..Len(tSessions) :
            OnCycle(i) =>
                /\ CountIn(tFlat, tSessions[i]) = 1
                /\ \A k \in 1..Len(tFlat) :
                      tFlat[k].session = tSessions[i] => tFlat[k].depth = 0

\* the parent reference of session i is absent or is no input session's path
NoResolvableParent(i) ==
    \/ tSessions[i].parentSession = None
    \/ ~\E j \in 1..Len(tSessions) : tSessions[j].path = tSessions[i].parentSession[1]

\* the parent reference of session i is present and is no input session's path
DanglingParent(i) ==
    /\ tSessions[i].parentSession # None
    /\ ~\E j \in 1..Len(tSessions) : tSessions[j].path = tSessions[i].parentSession[1]

\* how many root nodes of the tree carry session s
RootCount(s) == Cardinality({k \in 1..Len(tTree) : tTree[k].session = s})

\* C9: a session is a root of the built tree if and only if its parent
\* reference is absent or is not the path of an input session; a session with
\* a dangling reference is a root, once, and is in the flattened list at
\* depth 0.
C9_RootIffNoListedParent ==
    /\ tpc \in {"built", "flat"} =>
          \A i \in 1..Len(tSessions) :
              RootCount(tSessions[i]) = (IF NoResolvableParent(i) THEN 1 ELSE 0)
    /\ tpc = "flat" =>
          \A i \in 1..Len(tSessions) :
              DanglingParent(i) =>
                  /\ CountIn(tFlat, tSessions[i]) = 1
                  /\ \A k \in 1..Len(tFlat) :
                        tFlat[k].session = tSessions[i] => tFlat[k].depth = 0

\* C9 witness: a flattened input that has a dangling reference, a reference
\* to another input session and a session without reference.
C9_Witness ==
    /\ tpc = "flat"
    /\ \E i \in 1..Len(tSessions) : DanglingParent(i)
    /\ \E i \in 1..Len(tSessions) : ParentIdx(i) \notin {0, i}
    /\ \E i \in 1..Len(tSessions) : tSessions[i].parentSession = None
    /\ Len(tTree) = 2

\* the paths reached from path p by following childrenOf at most m times
RECURSIVE BucketDescendants(_, _)
BucketDescendants(p, m) ==
    IF m = 0 THEN {}
    ELSE LET kids == {BucketOf(tChildrenOf, p)[k].path :
                         k \in 1..Len(BucketOf(tChildrenOf, p))}
         IN  kids \cup UNION {BucketDescendants(q, m - 1) : q \in kids}

\* C10: after the indexing pass no session is in the children bucket of
\* itself or of one of its own descendants.
C10_NeverInOwnSubtree ==
    tpc # "input" =>
        \A p \in DOMAIN tChildrenOf :
            \A k \in 1..Len(tChildrenOf[p]) :
                LET c == tChildrenOf[p][k].path
                IN  p # c /\ p \notin BucketDescendants(c, Len(tSessions))


(***************************************************************************)
(* Claims about the command and the navigator, checked under Spec.         *)
(***************************************************************************)
\* the navigator exists and is in Browsing / in Searching
Browsing == selector # None /\ ~selector[1].searchMode
Searching == selector # None /\ selector[1].searchMode

\* there is an entry at the selected index of the filtered list
EntryAtSelected(s) == s.selectedIndex \in 0..(Len(s.filteredNodes) - 1)

\* C3: a cancel key during loading produces done(null) at once, and after a
\* terminal outcome nothing is applied: the view and the selector stay as
\* they are and no further outcome or notification is emitted.
C3_CancelDiscardsLateResults ==
    [][/\ (selector = None /\ outcomes = <<>> /\ lastKey' = "escape")
              => outcomes' = <<None>>
       /\ outcomes # <<>>
              => UNCHANGED <<view, selector, outcomes, notifications>>]_vars

\* C4: once the listing has returned sessions, loading finishes and the
\* navigator is installed, unless an outcome ends the interaction before.
C4_LoadingReachesBrowsing ==
    (pc = "header" /\ outcomes = <<>>) ~> (selector # None \/ outcomes # <<>>)

\* C5: the selected index is inside the visible window.
C5_SelectedInWindow ==
    selector # None =>
        LET s == selector[1]
        IN  /\ s.scrollOffset <= s.selectedIndex
            /\ s.selectedIndex <= s.scrollOffset + s.maxVisibleLines - 1

\* C5 witness: a move down has scrolled the window; the selection is on its
\* last line.
C5_Witness ==
    /\ selector # None
    /\ lastKey \in {"down", "pageDown", "end"}
    /\ selector[1].scrollOffset > 0
    /\ selector[1].selectedIndex
          = selector[1].scrollOffset + selector[1].maxVisibleLines - 1

\* C6 as stated: in Browsing the commit key always ends the interaction with
\* the path of the entry at the selected index, the cancel key with
\* Cancelled, and "/" enters Searching without an outcome.
C6_CommitAlwaysSelects ==
    (Browsing /\ outcomes = <<>>) =>
        LET s == selector[1]
        IN  /\ EntryAtSelected(s)
            /\ handleInputEmit(s, "enter")
                  = <<Some(s.filteredNodes[s.selectedIndex + 1].session.path)>>
            /\ handleInputEmit(s, "escape") = <<None>>
            /\ handleInputEmit(s, "/") = <<>>
            /\ handleInput(s, "/").searchMode

\* C6 amended: in Browsing the commit key ends the interaction with the path
\* of the entry at the selected index of the filtered list when there is
\* such an entry, and otherwise emits nothing and changes nothing; the cancel
\* key ends it with Cancelled; "/" enters Searching without an outcome.
C6_CommitSelectsEntryIfAny ==
    (Browsing /\ outcomes = <<>>) =>
        LET s == selector[1]
        IN  /\ IF EntryAtSelected(s)
               THEN handleInputEmit(s, "enter")
                       = <<Some(s.filteredNodes[s.selectedIndex + 1].session.path)>>
               ELSE handleInputEmit(s, "enter") = <<>>
            /\ handleInput(s, "enter") = s
            /\ handleInputEmit(s, "escape") = <<None>>
            /\ handleInputEmit(s, "/") = <<>>
            /\ handleInput(s, "/") = [s EXCEPT !.searchMode = TRUE]

\* C6 witness: the commit key has ended the interaction with the path of the
\* selected entry of a list that a filter has shortened.
C6_Witness ==
    /\ Browsing
    /\ lastKey = "enter"
    /\ Len(selector[1].filteredNodes) < Len(selector[1].flatNodes)
    /\ selector[1].selectedIndex > 0
    /\ EntryAtSelected(selector[1])
    /\ outcomes = <<Some(selector[1].filteredNodes[selector[1].selectedIndex + 1]
                             .session.path)>>

\* C7: in Searching a character input appends to the query, filters the full
\* flattened list with the new query, and leaves the selected index within
\* 0 .. max(0, length - 1) of the new filtered list.
C7_TypingKeepsSelectionInBounds ==
    Searching =>
        \A key \in Printable :
            LET s == selector[1]
                t == handleInput(s, key)
            IN  /\ t.query = Append(s.query, key)
                /\ t.filteredNodes = FilterNodes(s.flatNodes, t.query)
                /\ t.selectedIndex >= 0
                /\ t.selectedIndex <= Max(0, Len(t.filteredNodes) - 1)

\* C8: in Searching the cancel key clears the query, restores the full list
\* and returns to Browsing; the commit key returns to Browsing with the query
\* and the filtered list as they were; neither emits an outcome.
C8_LeavingSearch ==
    Searching =>
        LET s == selector[1]
            e == handleInput(s, "escape")
            c == handleInput(s, "enter")
        IN  /\ ~e.searchMode
            /\ e.query = <<>>
            /\ e.filteredNodes = s.flatNodes
            /\ ~c.searchMode
            /\ c.query = s.query
            /\ c.filteredNodes = s.filteredNodes
            /\ handleInputEmit(s, "escape") = <<>>
            /\ handleInputEmit(s, "enter") = <<>>

\* C8 witness: the commit key has left Searching and the filter is still on.
C8_Witness ==
    /\ Browsing
    /\ lastKey = "enter"
    /\ outcomes = <<>>
    /\ EntryAtSelected(selector[1])
    /\ selector[1].query # <<>>
    /\ Len(selector[1].filteredNodes) < Len(selector[1].flatNodes)

(***************************************************************************)
(* Claims about the recursion of buildNode, checked under WalkSpec.        *)
(***************************************************************************)
\* how many calls of buildNode were made on session x
CallsOn(x) == Cardinality({k \in 1..Len(wVisited) : wVisited[k] = x})

\* C11: buildSessionTree followed by flattenTree terminates with a finite
\* list on every finite input, self-references and reference cycles
\* included: buildNode is called at most once on a session, so a walk makes
\* at most as many calls as there are sessions, and the walk that returned
\* visited exactly the sessions of the flattened list, in its order.
C11_WalkEndsWithinInput ==
    /\ \A i \in 1..Len(tSessions) : CallsOn(tSessions[i]) <= 1
    /\ Len(wVisited) <= Len(tSessions)
    /\ tpc = "walked" =>
          LET flat == flattenTree(buildSessionTree(tSessions))
          IN  /\ Len(flat) = Len(wVisited)
              /\ \A k \in 1..Len(flat) : flat[k].session = wVisited[k]

\* a walk that returned on an input with a reference cycle, after a call on
\* a root and a call on its child
C11_Witness ==
    /\ tpc = "walked"
    /\ \E i \in 1..Len(tSessions) : OnCycle(i)
    /\ Len(wVisited) = 2
    /\ wVisited[2].parentSession = Some(wVisited[1].path)

(***************************************************************************)
(* Claims about the order and the depths of the flattened list, checked    *)
(* under TreeSpec.                                                         *)
(***************************************************************************)
\* entry l of the flattened list lies in the block of entry k: k comes
\* first and every entry between them is deeper than k
InBlockOf(l, k) ==
    /\ k < l
    /\ \A j \in (k + 1)..(l - 1) : tFlat[j].depth > tFlat[k].depth

\* entries k and l of the flattened list are children of the same parent
Siblings(k, l) ==
    /\ tFlat[k].depth > 0
    /\ tFlat[l].depth > 0
    /\ tFlat[k].session.parentSession = tFlat[l].session.parentSession

\* C12: in the flattened list the roots come in descending modification
\* time; every child comes after its parent, inside the parent's block, and
\* the children of one parent come in ascending creation time, so that an
\* earlier-created sibling and its whole subtree precede a later-created one.
C12_RootsNewestFirstChildrenOldestFirst ==
    tpc = "flat" =>
        /\ \A k, l \in 1..Len(tFlat) :
              (k < l /\ tFlat[k].depth = 0 /\ tFlat[l].depth = 0)
                  => tFlat[k].session.modified >= tFlat[l].session.modified
        /\ \A l \in 1..Len(tFlat) :
              tFlat[l].depth > 0 =>
                  \E k \in 1..Len(tFlat) :
                      /\ Some(tFlat[k].session.path) = tFlat[l].session.parentSession
                      /\ tFlat[k].depth + 1 = tFlat[l].depth
                      /\ InBlockOf(l, k)
        /\ \A k, l \in 1..Len(tFlat) :
              (k < l /\ Siblings(k, l))
                  => tFlat[k].session.created <= tFlat[l].session.created

\* a parent followed by its two children, the one listed later in the input
\* created earlier and therefore first
C12_Witness ==
    /\ tpc = "flat"
    /\ Len(tFlat) = 3
    /\ tFlat[2].session.path = PathOf(3)
    /\ tFlat[3].session.path = PathOf(2)
    /\ Siblings(2, 3)
    /\ tFlat[2].session.created < tFlat[3].session.created

(***************************************************************************)
(* Claims about the prefixes of the flattened list, checked under          *)
(* ForestSpec.                                                             *)
(***************************************************************************)
\* the i-th three-character fragment of a prefix
Fragment(prefix, i) == SubSeq(prefix, 3 * i - 2, 3 * i)

\* the vertical-bar fragments of a prefix, its last fragment (the entry's
\* own connector) left out
BarCount(prefix) ==
    Cardinality({i \in 1..((Len(prefix) \div 3) - 1) :
                    Fragment(prefix, i) = <<"|", " ", " ">>})

\* the entry of the parent of the non-root entry l
FlatParent(l) ==
    CHOOSE k \in 1..Len(tFlat) :
        Some(tFlat[k].session.path) = tFlat[l].session.parentSession

\* no later entry is a child of the parent of entry l
LastSibling(l) == ~ \E m \in (l + 1)..Len(tFlat) : Siblings(l, m)

\* the proper ancestors of entry l that have a parent and are not its last
\* child
RECURSIVE NotLastAncestors(_)
NotLastAncestors(l) ==
    IF tFlat[l].depth = 0 THEN 0
    ELSE LET k == FlatParent(l)
         IN  (IF tFlat[k].depth > 0 /\ ~LastSibling(k) THEN 1 ELSE 0)
             + NotLastAncestors(k)

\* C13: for every non-root entry of the flattened list, the number of
\* vertical-bar fragments in its prefix is the number of its proper
\* ancestors that are not the last child of their own parent, and its own
\* connector is the last-child one exactly when it is the final sibling
\* among its parent's children (the branch one otherwise).
C13_BarsCountNotLastAncestors ==
    tpc = "flat" =>
        \A l \in 1..Len(tFlat) :
            tFlat[l].depth > 0 =>
                LET prefix == tFlat[l].prefix
                    connector == SubSeq(prefix, Len(prefix) - 2, Len(prefix))
                IN  /\ BarCount(prefix) = NotLastAncestors(l)
                    /\ connector = <<"L", "-", " ">> <=> LastSibling(l)
                    /\ connector = <<"T", "-", " ">> <=> ~LastSibling(l)

\* an entry at depth 2 under a parent that is not a last child (one bar),
\* and a non-last sibling with the branch connector
C13_Witness ==
    /\ tpc = "flat"
    /\ \E l \in 1..Len(tFlat) :
          /\ tFlat[l].depth = 2
          /\ BarCount(tFlat[l].prefix) = 1
          /\ ~LastSibling(FlatParent(l))
    /\ \E l \in 1..Len(tFlat) : tFlat[l].depth > 0 /\ ~LastSibling(l)

(***************************************************************************)
(* Claims about the search filter, checked under Spec.                     *)
(***************************************************************************)
\* a character with its case folded
CaseFold(c) == IF c \in {"A", "a"} THEN "a" ELSE IF c \in {"B", "b"} THEN "b" ELSE c

\* a query of blanks only (the empty query included)
Blank(q) == \A i \in 1..Len(q) : q[i] = " "

\* a non-blank query without its leading and trailing blanks
Trimmed(q) ==
    LET first == CHOOSE a \in 1..Len(q) : q[a] # " " /\ \A i \in 1..(a - 1) : q[i] = " "
        last  == CHOOSE b \in 1..Len(q) : q[b] # " " /\ \A i \in (b + 1)..Len(q) : q[i] = " "
    IN  SubSeq(q, first, last)

\* first message, name, working directory and path of an entry, the empty
\* ones left out, separated by blanks
TextOf(entry) ==
    JoinSpace(SelectSeq(<<entry.session.firstMessage, entry.session.name,
                          entry.session.cwd, entry.session.path>>,
                        LAMBDA x : x # <<>>))

\* text contains q, the case of letters disregarded
ContainsFolded(text, q) ==
    \E i \in 0..(Len(text) - Len(q)) :
        \A j \in 1..Len(q) : CaseFold(text[i + j]) = CaseFold(q[j])

\* entry matches the non-blank query q
Matches(entry, q) == ContainsFolded(TextOf(entry), Trimmed(q))

\* C14: with a non-blank query the filtered list is exactly the subsequence,
\* in the original order, of the flat-list entries whose match text (first
\* message, name, working directory, path) contains the trimmed query
\* case-insensitively; a retained entry is the flat-list entry itself, with
\* its prefix, depth and other fields.  applyFilter run again on that state
\* yields the same list.
C14_FilterIsMatchingSubsequence ==
    selector # None =>
        LET s == selector[1]
            expected == SelectSeq(s.flatNodes, LAMBDA e : Matches(e, s.query))
        IN  ~Blank(s.query) =>
                /\ s.filteredNodes = expected
                /\ applyFilter(s).filteredNodes = expected

\* the query " B" typed in search mode keeps some entries and drops others,
\* and keeps an indented entry with its prefix
C14_Witness ==
    /\ selector # None
    /\ selector[1].searchMode
    /\ lastKey = "B"
    /\ selector[1].query = <<" ", "B">>
    /\ Len(selector[1].filteredNodes) > 1
    /\ Len(selector[1].filteredNodes) < Len(selector[1].flatNodes)
    /\ \E k \in 1..Len(selector[1].filteredNodes) :
          selector[1].filteredNodes[k].prefix # <<>>

\* C15: an empty or whitespace-only query gives the full flat list
\* unchanged; a query that no entry matches gives the empty list; and
\* filtering is idempotent: filtering the filtered list again with the same
\* query returns the same list.
C15_BlankQueryAllNoMatchNoneIdempotent ==
    selector # None =>
        LET s == selector[1]
        IN  /\ Blank(s.query) =>
                /\ s.filteredNodes = s.flatNodes
                /\ applyFilter(s).filteredNodes = s.flatNodes
            /\ (~Blank(s.query) /\ \A k \in 1..Len(s.flatNodes) : ~Matches(s.flatNodes[k], s.query))
                    => s.filteredNodes = <<>> /\ applyFilter(s).filteredNodes = <<>>
            /\ FilterNodes(s.filteredNodes, s.query) = s.filteredNodes
            /\ applyFilter(applyFilter(s)).filteredNodes = applyFilter(s).filteredNodes

\* two blanks typed in search mode: the whole list of several entries stays
C15_Witness ==
    /\ selector # None
    /\ selector[1].searchMode
    /\ lastKey = " "
    /\ selector[1].query = <<" ", " ">>
    /\ Len(selector[1].flatNodes) > 1
    /\ selector[1].filteredNodes = selector[1].flatNodes

(***************************************************************************)
(* Claims about loading, checked under Spec and FairSpec.                  *)
(***************************************************************************)
\* the progress notifications so far have strictly increasing loaded values
\* and one total, the number of listed sessions
ProgressIncreasing ==
    /\ \A k \in 1..Len(progress) : progress[k][2] = Len(sessions)
    /\ \A k \in 1..(Len(progress) - 1) : progress[k][1] < progress[k + 1][1]

\* the last progress notification has loaded equal to total
ProgressAtTotal ==
    /\ progress # <<>>
    /\ progress[Len(progress)][1] = progress[Len(progress)][2]

\* C16: during loading the progress notifications (loaded, total) have
\* strictly increasing loaded values and a constant total, and the last
\* notification has loaded equal to total, whatever the outcomes of the
\* header reads are.
C16_ProgressEndsAtTotal ==
    /\ []ProgressIncreasing
    /\ (pc = "header") ~> ProgressAtTotal

\* the listing step has failed: its error was reported to the caller
ListingFailed ==
    \E k \in 1..Len(notifications) : notifications[k] = "Error loading sessions"

\* C17: if the session listing step fails, the interaction ends with the
\* 'no selection' outcome (done(null)) and an error notification to the
\* caller, and the navigator never enters Browsing: no selector is created
\* and no session is read or selected.
C17_ListingFailureEndsWithoutSelector ==
    ListingFailed =>
        /\ pc = "end"
        /\ outcomes # <<>>
        /\ \A k \in 1..Len(outcomes) : outcomes[k] = None
        /\ selector = None
        /\ view = <<"loading">>
        /\ sessions = <<>> /\ results = <<>> /\ progress = <<>>

\* the listing failed while the loading view was up and no key had come
C17_Witness ==
    /\ notifications = <<"Error loading sessions">>
    /\ outcomes = <<None>>
    /\ lastKey = "none"
    /\ selector = None

\* the file being read cannot be read, or its first line does not parse, or
\* its first line is a record of a foreign type
AnomalousRead ==
    /\ pc = "header"
    /\ pending # None
    /\ pending[1] \in {UnreadableFile, MalformedFile, ForeignFile}

\* session x is a root of the tree the navigator shows
ShownAsRoot(s, x) ==
    \E k \in 1..Len(s.flatNodes) :
        s.flatNodes[k].session = x /\ s.flatNodes[k].depth = 0

\* C18: a header read that fails, a first line that does not parse, or a
\* header of a foreign record type yields 'no parent' for that session only:
\* the results so far are kept, nothing is reported and no outcome is
\* produced, loading goes on to the next session or to the tree, and every
\* session without a parent is shown as a root.
C18_HeaderAnomalyIsNoParent ==
    /\ [](selector # None =>
            \A i \in 1..Len(results) :
                results[i].parentSession = None => ShownAsRoot(selector[1], results[i]))
    /\ [][(AnomalousRead /\ loaded' = loaded + 1) =>
            /\ Len(results') = Len(results) + 1
            /\ SubSeq(results', 1, Len(results)) = results
            /\ results'[loaded'].path = sessions[loaded'].path
            /\ results'[loaded'].parentSession = None
            /\ UNCHANGED <<outcomes, notifications>>
            /\ loaded' < Len(sessions) => (pc' = "header" /\ pending' # None)
            /\ loaded' = Len(sessions) => selector' # None]_vars

\* the navigator is up after the second session, whose header names the
\* first as its parent, was read with an anomaly: it is a root, and the
\* fourth session is shown as its child
C18_Witness ==
    /\ selector # None
    /\ Len(results) >= 4
    /\ results[2].parentSession = None
    /\ results[4].parentSession = Some(results[2].path)
    /\ ShownAsRoot(selector[1], results[2])
    /\ \E k \in 1..Len(selector[1].flatNodes) :
          /\ selector[1].flatNodes[k].session = results[4]
          /\ selector[1].flatNodes[k].depth = 1

(***************************************************************************)
(* Claims about scrolling, checked under Spec.                             *)
(***************************************************************************)
\* index i is on one of the lines of the window of selector s
InWindow(s, i) == s.scrollOffset <= i /\ i < s.scrollOffset + s.maxVisibleLines

\* C19: a single up or down key in Browsing changes the scroll offset by at
\* most 1, and changes it only when the new selected index would fall
\* outside the visible window; a one-step move that stays inside the window
\* leaves the scroll offset unchanged.
C19_OneStepScrollsAtMostOne ==
    Browsing =>
        \A key \in {"up", "down"} :
            LET s == selector[1]
                t == handleInput(s, key)
                shift == t.scrollOffset - s.scrollOffset
            IN  /\ shift \in {-1, 0, 1}
                /\ shift # 0 => ~InWindow(s, t.selectedIndex)
                /\ InWindow(s, t.selectedIndex) => shift = 0
                /\ t.selectedIndex - s.selectedIndex \in {-1, 0, 1}

\* a down key has just moved the selection below a window of five lines
\* that started at the top: the window starts one line further down
C19_Witness ==
    /\ Browsing
    /\ lastKey = "down"
    /\ selector[1].maxVisibleLines = 5
    /\ selector[1].selectedIndex = 5
    /\ selector[1].scrollOffset = 1
    /\ Len(selector[1].filteredNodes) = 6

(***************************************************************************)
(* Claims about depths, checked under ForestSpec.                          *)
(***************************************************************************)
\* node has depth d and each of its descendants one more than its parent
RECURSIVE DepthsFrom(_, _)
DepthsFrom(node, d) ==
    /\ node.depth = d
    /\ \A i \in 1..Len(node.children) : DepthsFrom(node.children[i], d + 1)

\* the nodes of a list of trees as <<session, depth of the node>>, each node
\* before its children
RECURSIVE NodesOf(_)
NodesOf(nodes) ==
    IF nodes = <<>> THEN <<>>
    ELSE <<<<Head(nodes).session, Head(nodes).depth>>>>
         \o NodesOf(Head(nodes).children) \o NodesOf(Tail(nodes))

\* C20: every root TreeNode has depth 0, every child has the depth of its
\* parent plus 1, and each FlatEntry carries the depth of its tree node.
C20_DepthsCountFromRoot ==
    /\ tpc \in {"built", "flat"} =>
          \A i \in 1..Len(tTree) : DepthsFrom(tTree[i], 0)
    /\ tpc = "flat" =>
          [k \in 1..Len(tFlat) |-> <<tFlat[k].session, tFlat[k].depth>>] = NodesOf(tTree)

\* a flattened chain of four sessions: depths 0, 1, 2, 3
C20_Witness ==
    /\ tpc = "flat"
    /\ Len(tFlat) = 4
    /\ \A k \in 1..4 : tFlat[k].depth = k - 1
    /\ \A k \in 2..4 : tFlat[k].session.parentSession = Some(tFlat[k - 1].session.path)

(***************************************************************************)
(* Claims about the navigator as constructed, checked under Spec.          *)
(***************************************************************************)
\* the navigator is as its constructor left it: no key has been delivered
FreshNavigator == selector # None /\ lastKey = "none"

\* some entry of the flat list of selector s has the current-session path
CurrentListed(s) ==
    /\ currentSessionPath # None
    /\ \E k \in 1..Len(s.flatNodes) :
          s.flatNodes[k].session.path = currentSessionPath[1]

\* C21: a navigator created with a current-session path that is the path of
\* an entry of the flattened list starts with that entry selected and inside
\* the visible window; when no entry has that path it starts with selected
\* index 0 and scroll offset 0.
C21_StartsOnCurrentSession ==
    FreshNavigator =>
        LET s == selector[1]
        IN  IF CurrentListed(s)
            THEN /\ s.selectedIndex \in 0..(Len(s.flatNodes) - 1)
                 /\ s.flatNodes[s.selectedIndex + 1].session.path = currentSessionPath[1]
                 /\ InWindow(s, s.selectedIndex)
            ELSE s.selectedIndex = 0 /\ s.scrollOffset = 0

\* a fresh navigator on six sessions with five visible lines: the current
\* session is the last entry and the window starts at the second one
C21_Witness ==
    /\ FreshNavigator
    /\ CurrentListed(selector[1])
    /\ selector[1].maxVisibleLines = 5
    /\ selector[1].selectedIndex = 5
    /\ selector[1].scrollOffset = 1

(***************************************************************************)
(* Claims about what the keys change, checked under Spec.                  *)
(***************************************************************************)
\* the keys that move the selection in Browsing
MovementKeys == {"up", "down", "pageUp", "pageDown", "home", "end"}

\* C22: once the navigator is built no key event changes the flattened list
\* (entries, order, prefixes): it stays the flattening of the tree of the
\* loaded sessions.  A key changes only the selected index, the scroll
\* offset, the query with the filtered view, and the search mode; in
\* Browsing the movement keys leave the query, the filtered list and the
\* mode as they are.
C22_KeysLeaveFlatListAlone ==
    selector # None =>
        LET s == selector[1]
        IN  /\ s.flatNodes = flattenTree(buildSessionTree(results))
            /\ \A key \in Keys :
                  LET t == handleInput(s, key)
                  IN  /\ t.flatNodes = s.flatNodes
                      /\ t.maxVisibleLines = s.maxVisibleLines
                      /\ t.currentSessionPath = s.currentSessionPath
                      /\ (~s.searchMode /\ key \in MovementKeys) =>
                            /\ t.query = s.query
                            /\ t.filteredNodes = s.filteredNodes
                            /\ t.searchMode = s.searchMode

\* back in Browsing with the filter "B" kept, the end key has moved the
\* selection to the last of the entries left, and the flat list is whole
C22_Witness ==
    /\ Browsing
    /\ lastKey = "end"
    /\ selector[1].query = <<"B">>
    /\ Len(selector[1].filteredNodes) > 1
    /\ Len(selector[1].filteredNodes) < Len(selector[1].flatNodes)
    /\ selector[1].selectedIndex = Len(selector[1].filteredNodes) - 1
    /\ Len(selector[1].flatNodes) = Len(results)

\* C23: in every reachable navigator state, page-down and end on an empty
\* filtered list included, the selected index and the scroll offset are
\* non-negative and the selected index is at most max(0, filteredLength - 1);
\* so whenever the filtered list is non-empty the commit key in Browsing
\* selects an existing entry.
C23_IndexAndOffsetNonNegative ==
    selector # None =>
        LET s == selector[1]
        IN  /\ s.selectedIndex >= 0
            /\ s.scrollOffset >= 0
            /\ s.selectedIndex <= Max(0, Len(s.filteredNodes) - 1)
            /\ (~s.searchMode /\ s.filteredNodes # <<>>) =>
                  \E k \in 1..Len(s.filteredNodes) :
                      handleInputEmit(s, "enter") = <<Some(s.filteredNodes[k].session.path)>>

(***************************************************************************)
(* Claims about the outcome of the command, checked under Spec.            *)
(***************************************************************************)
\* C24: within one invocation of the /sessions command the callback done is
\* invoked at most once, whatever the interleaving of key events (cancel
\* keys during loading included) with the completion or the failure of the
\* listing and of the header reads.
C24_DoneAtMostOnce == Len(outcomes) <= 1

\* C25: while the navigator is in Searching no key event produces a
\* terminal outcome (neither onSelect nor onCancel is invoked), no outcome
\* has been produced, and a key that ends Searching (Enter or Escape, no
\* other) leaves the navigator in Browsing.
C25_SearchingEmitsNothing ==
    Searching =>
        /\ outcomes = <<>>
        /\ \A key \in Keys :
              LET s == selector[1]
                  t == handleInput(s, key)
              IN  /\ handleInputEmit(s, key) = <<>>
                  /\ ~t.searchMode => key \in {"enter", "escape"}
                  /\ t.flatNodes = s.flatNodes

\* Escape has just ended a search on several sessions: Browsing, the filter
\* cleared, and no outcome
C25_Witness ==
    /\ Browsing
    /\ lastKey = "escape"
    /\ outcomes = <<>>
    /\ selector[1].query = <<>>
    /\ Len(selector[1].filteredNodes) > 1

(***************************************************************************)
(* The shape of the prefixes, checked under ForestSpec.                    *)
(***************************************************************************)
\* C26: every depth-0 entry of the flattened list has the empty prefix, and
\* every entry at depth d >= 1 has a prefix of exactly d three-character
\* fragments: d - 1 ancestor fragments, each blank or a vertical bar, and
\* then the entry's own connector; the depth-0 ancestor adds no fragment.
C26_PrefixHasDepthFragments ==
    tpc = "flat" =>
        \A l \in 1..Len(tFlat) :
            LET d == tFlat[l].depth
                prefix == tFlat[l].prefix
            IN  /\ d = 0 => prefix = <<>>
                /\ d >= 1 =>
                      /\ Len(prefix) = 3 * d
                      /\ \A i \in 1..(d - 1) :
                            Fragment(prefix, i) \in {<<" ", " ", " ">>, <<"|", " ", " ">>}
                      /\ Fragment(prefix, d) \in {<<"L", "-", " ">>, <<"T", "-", " ">>}

\* a root, its first child with the branch connector, that child's child
\* with a bar and the last-child connector, and the root's last child
C26_Witness ==
    /\ tpc = "flat"
    /\ Len(tFlat) = 4
    /\ tFlat[1].prefix = <<>>
    /\ tFlat[2].prefix = <<"T", "-", " ">>
    /\ tFlat[3].prefix = <<"|", " ", " ", "L", "-", " ">>
    /\ tFlat[4].prefix = <<"L", "-", " ">>

(***************************************************************************)
(* Claims about the session_query tool, checked under QuerySpec.           *)
(***************************************************************************)
\* the session path has the suffix .jsonl
PathAccepted ==
    /\ Len(sessionPath) >= 6
    /\ \A i \in 1..6 : sessionPath[Len(sessionPath) - 6 + i] = <<".", "j", "s", "o", "n", "l">>[i]

\* the branch of the session holds at least one message
HasMessages == \E i \in 1..Len(qWorld.branch) : qWorld.branch[i] = "message"

\* execute has neither reported progress, nor opened the session, nor
\* called the model
NothingStarted == qUpdates = <<>> /\ ~qOpened /\ qCompleteCalls = 0

\* C27: the session_query tool checks its input in a fixed order and stops
\* at the first failure.  A path not ending in .jsonl, or a missing file,
\* returns an isError result before any progress update, session load or
\* model call; a session with no messages returns the non-error 'Session is
\* empty' result, and a missing model an isError result, both without
\* calling the model.  Until it returns, execute has no result.
C27_ChecksInOrderStopsAtFirst ==
    /\ qpc \notin {"off", "returned"} => qResult = None
    /\ qpc = "returned" =>
          LET result == qResult[1]
          IN  /\ ~PathAccepted =>
                    /\ result = [text |-> "Error: Invalid session path", isError |-> TRUE]
                    /\ NothingStarted
              /\ (PathAccepted /\ qWorld.fs = "missing") =>
                    /\ result = [text |-> "Error: Session file not found", isError |-> TRUE]
                    /\ NothingStarted
              /\ (PathAccepted /\ qWorld.fs = "exists" /\ qWorld.open = "opens"
                  /\ ~HasMessages) =>
                    /\ result = [text |-> "Session is empty - no messages found.",
                                 isError |-> FALSE]
                    /\ qCompleteCalls = 0
              /\ (PathAccepted /\ qWorld.fs = "exists" /\ qWorld.open = "opens"
                  /\ HasMessages /\ ~qWorld.model) =>
                    /\ result = [text |-> "Error: No model available to analyze the session.",
                                 isError |-> TRUE]
                    /\ qCompleteCalls = 0

\* execute returned for want of a model, on a session with a message and
\* an entry of another type, after its two progress updates
C27_Witness ==
    /\ qpc = "returned"
    /\ qResult = Some([text |-> "Error: No model available to analyze the session.",
                       isError |-> TRUE])
    /\ qWorld.branch = <<"compaction", "message">>
    /\ qUpdates = <<"Loading session...", "Analyzing session...">>
    /\ qOpened
    /\ qCompleteCalls = 0

=============================================================================
